---- MODULE Spec2Model ----
(***************************************************************************)
(* Model of src/main.py: the e-commerce order bot.  A refresh cycle        *)
(* (load_orders_from_db) fetches every row of hp_order and rewrites the    *)
(* cache document DATA_FILE; the cycle is run once by startup_event, then  *)
(* forever by the refresh_data_job thread, and once per POST /refresh-data *)
(* as a background task.  The request handlers read the document with      *)
(* load_orders_from_file.                                                  *)
(*                                                                         *)
(* The document is modelled as the sequence of blocks in which the text    *)
(* json.dump produces reaches the file: one block per order record (the    *)
(* first opens the object and the list), and a last block that closes the  *)
(* list and holds last_updated and total_orders.  open(DATA_FILE, 'w')     *)
(* truncates the document; every writer owns its own file offset.          *)
(***************************************************************************)
EXTENDS Integers, Sequences, FiniteSets, TLC

\* ---------------------------------------------------------------- bounds
\* most rows the source table holds at a fetch
MaxOrders == 1
\* distinct contents a row can have (the table changes between fetches)
NumVersions == 1
\* the wall clock, in seconds, stops advancing here
MaxClock == 1
\* POST /refresh-data requests served
MaxManual == 2
\* most rows of the cached Snapshot in the prompt-building specification
MaxPromptOrders == 52

\* ------------------------------------------------------ program constants
\* orders_data['orders'][:50]
PromptLimit == 50

\* ------------------------------------------------------------------ data
\* python's None
None == [kind |-> "none"]

\* a raised exception, as a value
Raised(what) == [kind |-> "exception", what |-> what]

Min(a, b) == IF a <= b THEN a ELSE b

\* one row of hp_order as dict(zip(columns, row))
OrderRecord(i, v) == [id |-> i, ver |-> v]

\* what cursor.fetchall() can return: n rows, all of one content version
FetchResults ==
  {<<>>} \cup
  { [i \in 1..n |-> OrderRecord(i, v)] : n \in 1..MaxOrders, v \in 1..NumVersions }

\* the request bodies POST /query receives
Queries == {"q1"}

\* ------------------------------------------------- the document on disk
Chunk(t, v) == [t |-> t, v |-> v]

\* the zero bytes that fill the hole when a write lands past the end of file
Nul == Chunk("nul", [hole |-> TRUE])

\* json.dump(data_to_save, f): the blocks in the order they are written
\* ('orders' first, then 'last_updated', then 'total_orders')
json_dump(d) ==
  [i \in 1..Len(d.orders) |-> Chunk("rec", d.orders[i])]
    \o <<Chunk("tail", [last_updated |-> d.last_updated,
                        total_orders |-> d.total_orders])>>

\* the text is one complete JSON object of the layout json_dump produces
WellFormed(c) ==
  /\ Len(c) >= 1
  /\ \A i \in 1..(Len(c) - 1) : c[i].t = "rec"
  /\ c[Len(c)].t = "tail"

\* json.load(f): the parsed dict, or JSONDecodeError
json_load(c) ==
  IF WellFormed(c)
  THEN [kind |-> "snapshot",
        orders |-> [i \in 1..(Len(c) - 1) |-> c[i].v],
        last_updated |-> c[Len(c)].v.last_updated,
        total_orders |-> c[Len(c)].v.total_orders]
  ELSE Raised("JSONDecodeError")

\* f.write(chunk) at offset pos of a file opened without O_APPEND
WriteAt(c, pos, chunk) ==
  IF pos < Len(c)
  THEN [c EXCEPT ![pos + 1] = chunk]
  ELSE c \o [i \in 1..(pos - Len(c)) |-> Nul] \o <<chunk>>

\* python truthiness of load_orders_from_file()'s result
Truthy(data) == data.kind = "snapshot"

\* ----------------------------------------------------------------- state
VARIABLES
  data_file,   \* DATA_FILE on disk: [exists, content]
  clock,       \* the last reading of datetime.now(), in seconds
  cyc,         \* every thread that runs load_orders_from_db: where it is, its locals
  ready,       \* startup_event has returned: the server accepts requests
  pending,     \* the POST /query the event loop is in the middle of, or None
  resp,        \* the HTTP response the last step sent, None when it sent none
  ret          \* the load_orders_from_db call that returned in the last step, or None

vars == <<data_file, clock, cyc, ready, pending, resp, ret>>

\* the thread of startup_event, the refresh_data_job thread, and one
\* thread-pool task per POST /refresh-data
MainThread == <<"main", 0>>
TimerThread == <<"timer", 0>>
Task(i) == <<"task", i>>
Tasks == { Task(i) : i \in 1..MaxManual }
Writers == {MainThread, TimerThread} \cup Tasks

\* the locals of a load_orders_from_db call that has not started
Idle(pc) == [pc |-> pc, data_to_save |-> None, pos |-> 0]

\* a variant of Now: the wall clock is set back between two calls
Now_set_back == 0..MaxClock

\* datetime.now(): time does not run backwards
Now == clock..Min(clock + 1, MaxClock)

Init ==
  /\ data_file = [exists |-> FALSE, content |-> <<>>]
  /\ clock = 0
  /\ cyc = [w \in Writers |->
              IF w = MainThread THEN Idle("start")
              ELSE IF w = TimerThread THEN Idle("unstarted")
              ELSE Idle("unused")]
  /\ ready = FALSE
  /\ pending = None
  /\ resp = None
  /\ ret = None

\* ------------------------------------------------- load_orders_from_db
\* return True / return False: the call's locals die; ret shows the value, the
\* line the call logged and the data_to_save it had built
Return(w, value, log) ==
  /\ cyc' = [cyc EXCEPT ![w] = Idle("returned")]
  /\ ret' = [kind |-> "return", by |-> w, value |-> value, log |-> log,
             data_to_save |-> cyc[w].data_to_save]

\* get_db_connection() caught the error and returned None: "if not conn: return False"
connect_fail(w) ==
  /\ cyc[w].pc = "start"
  /\ Return(w, FALSE, "conn_error")
  /\ resp' = None
  /\ UNCHANGED <<data_file, clock, ready, pending>>

\* a faulty variant of query_fail: the document is opened for writing before
\* the query runs, so a failed query has already truncated it
query_fail_after_open(w) ==
  /\ cyc[w].pc = "start"
  /\ Return(w, FALSE, "query_error")
  /\ data_file' = [exists |-> TRUE, content |-> <<>>]
  /\ resp' = None
  /\ UNCHANGED <<clock, ready, pending>>

\* cursor.execute / fetchall raised: "except Exception: return False"
query_fail(w) ==
  /\ cyc[w].pc = "start"
  /\ Return(w, FALSE, "query_error")
  /\ resp' = None
  /\ UNCHANGED <<data_file, clock, ready, pending>>

\* a faulty variant of DataToSave: the count is taken before the rows are
\* appended to orders
DataToSave_early_count(orders, now) ==
  [orders |-> orders, last_updated |-> now, total_orders |-> 0]

\* data_to_save = {'orders': ..., 'last_updated': now, 'total_orders': len(orders)}
DataToSave(orders, now) ==
  [orders |-> orders, last_updated |-> now, total_orders |-> Len(orders)]

\* the rows are fetched into orders and data_to_save is built
fetch_ok(w) ==
  /\ cyc[w].pc = "start"
  /\ \E rows \in FetchResults, now \in Now :
       /\ clock' = now
       /\ cyc' = [cyc EXCEPT ![w].pc = "built",
                             ![w].data_to_save = DataToSave(rows, now)]
  /\ resp' = None
  /\ ret' = None
  /\ UNCHANGED <<data_file, ready, pending>>

\* open(DATA_FILE, 'w'): creates or truncates the document, offset 0
open_file(w) ==
  /\ cyc[w].pc = "built"
  /\ data_file' = [exists |-> TRUE, content |-> <<>>]
  /\ cyc' = [cyc EXCEPT ![w].pc = "writing", ![w].pos = 0]
  /\ resp' = None
  /\ ret' = None
  /\ UNCHANGED <<clock, ready, pending>>

\* json.dump's next block reaches the file, at this writer's own offset
write_chunk(w) ==
  /\ cyc[w].pc = "writing"
  /\ cyc[w].pos < Len(json_dump(cyc[w].data_to_save))
  /\ data_file' = [data_file EXCEPT !.content =
                     WriteAt(@, cyc[w].pos, json_dump(cyc[w].data_to_save)[cyc[w].pos + 1])]
  /\ cyc' = [cyc EXCEPT ![w].pos = @ + 1]
  /\ resp' = None
  /\ ret' = None
  /\ UNCHANGED <<clock, ready, pending>>

\* json.dump or f.write raised part-way (a value json cannot encode, a full
\* disk): the with block closes the file, "except Exception: return False"
write_fail(w) ==
  /\ cyc[w].pc = "writing"
  /\ cyc[w].pos < Len(json_dump(cyc[w].data_to_save))
  /\ Return(w, FALSE, "write_error")
  /\ resp' = None
  /\ UNCHANGED <<data_file, clock, ready, pending>>

\* every block is written: the with block closes the file, conn.close(), return True
write_done(w) ==
  /\ cyc[w].pc = "writing"
  /\ cyc[w].pos = Len(json_dump(cyc[w].data_to_save))
  /\ Return(w, TRUE, "ok")
  /\ resp' = None
  /\ UNCHANGED <<data_file, clock, ready, pending>>

load_orders_from_db(w) ==
  \/ connect_fail(w)
  \/ query_fail(w)
  \/ fetch_ok(w)
  \/ open_file(w)
  \/ write_chunk(w)
  \/ write_fail(w)
  \/ write_done(w)

\* ------------------------------------------- startup and the timed loop
\* startup_event after its load_orders_from_db(): start_background_refresh()
\* starts the refresh_data_job thread, and the server begins to serve
startup_event ==
  /\ cyc[MainThread].pc = "returned"
  /\ cyc[TimerThread].pc = "unstarted"
  /\ cyc' = [cyc EXCEPT ![MainThread] = Idle("done"), ![TimerThread].pc = "start"]
  /\ ready' = TRUE
  /\ resp' = None
  /\ ret' = None
  /\ UNCHANGED <<data_file, clock, pending>>

\* variant: no while loop, after one cycle and one sleep the thread ends
refresh_data_job_once ==
  /\ cyc[TimerThread].pc = "returned"
  /\ cyc' = [cyc EXCEPT ![TimerThread] = Idle("ended")]
  /\ resp' = None
  /\ ret' = None
  /\ UNCHANGED <<data_file, clock, ready, pending>>

\* refresh_data_job: time.sleep(REFRESH_INTERVAL_MINUTES * 60) is over, the
\* while loop calls load_orders_from_db() again
refresh_data_job ==
  /\ cyc[TimerThread].pc = "returned"
  /\ cyc' = [cyc EXCEPT ![TimerThread] = Idle("start")]
  /\ resp' = None
  /\ ret' = None
  /\ UNCHANGED <<data_file, clock, ready, pending>>

\* ------------------------------------------------ load_orders_from_file
\* the try block: os.path.exists, open, json.load
ReadFile(f) == IF f.exists THEN json_load(f.content) ELSE None

\* a faulty variant of load_orders_from_file: no except clause
load_orders_from_file_uncaught(f) == ReadFile(f)

\* "except Exception: return None"
load_orders_from_file(f) ==
  IF ReadFile(f).kind = "exception" THEN None ELSE ReadFile(f)

\* ----------------------------------------------------- request handlers
\* the event loop runs one async handler at a time, once startup is over
CanServe == ready /\ pending = None

\* a response, with what its handler saw: the value load_orders_from_file()
\* gave it, and what model.generate_content did ("none": it was not called)
Response(op, status, body, read, model) ==
  [op |-> op, status |-> status, body |-> body, read |-> read, model |-> model]

DataInfo(data) ==
  [total_orders |-> data.total_orders, last_updated |-> data.last_updated]

\* GET /
RootBody(data) ==
  IF Truthy(data)
  THEN [kind |-> "active", status |-> "running", data_info |-> DataInfo(data)]
  ELSE [kind |-> "waiting", status |-> "running"]

\* a faulty variant of root: a document that cannot be read is removed
root_removing_unreadable ==
  /\ CanServe
  /\ LET data == load_orders_from_file(data_file)
     IN /\ resp' = Response("root", 200, RootBody(data), data, "none")
        /\ data_file' = IF Truthy(data) THEN data_file
                        ELSE [exists |-> FALSE, content |-> <<>>]
  /\ ret' = None
  /\ UNCHANGED <<clock, cyc, ready, pending>>

root ==
  /\ CanServe
  /\ LET data == load_orders_from_file(data_file)
     IN resp' = Response("root", 200, RootBody(data), data, "none")
  /\ ret' = None
  /\ UNCHANGED <<data_file, clock, cyc, ready, pending>>

\* a faulty variant of StatsBody: the sample is the last record
StatsBody_last_sample(data) ==
  IF ~Truthy(data)
  THEN [kind |-> "message", message |-> "No data available"]
  ELSE [kind |-> "stats",
        total_orders |-> data.total_orders,
        last_updated |-> data.last_updated,
        sample_order |-> IF data.orders # <<>> THEN data.orders[Len(data.orders)] ELSE None]

\* a faulty variant of StatsBody: "if not data or not data['orders']"
StatsBody_empty_is_no_data(data) ==
  IF ~Truthy(data) \/ data.orders = <<>>
  THEN [kind |-> "message", message |-> "No data available"]
  ELSE [kind |-> "stats",
        total_orders |-> data.total_orders,
        last_updated |-> data.last_updated,
        sample_order |-> data.orders[1]]

\* GET /data-stats
StatsBody(data) ==
  IF ~Truthy(data)
  THEN [kind |-> "message", message |-> "No data available"]
  ELSE [kind |-> "stats",
        total_orders |-> data.total_orders,
        last_updated |-> data.last_updated,
        sample_order |-> IF data.orders # <<>> THEN data.orders[1] ELSE None]

get_data_stats ==
  /\ CanServe
  /\ LET data == load_orders_from_file(data_file)
     IN resp' = Response("stats", 200, StatsBody(data), data, "none")
  /\ ret' = None
  /\ UNCHANGED <<data_file, clock, cyc, ready, pending>>

\* POST /refresh-data: background_tasks.add_task(load_orders_from_db); the
\* framework starts the task in its thread pool after the response is sent
NextTask == Task(Cardinality({ t \in Tasks : cyc[t].pc # "unused" }) + 1)

\* a faulty variant of AddTask: the task is never added
AddTask_dropped == cyc' = cyc

AddTask == cyc' = [cyc EXCEPT ![NextTask].pc = "queued"]

manual_refresh ==
  /\ CanServe
  /\ NextTask \in Tasks
  /\ AddTask
  /\ resp' = Response("refresh", 200,
                      [kind |-> "message", message |-> "Data refresh started in background"],
                      None, "none")
  /\ ret' = None
  /\ UNCHANGED <<data_file, clock, ready, pending>>

\* the thread pool picks the queued task up
run_task(w) ==
  /\ cyc[w].pc = "queued"
  /\ cyc' = [cyc EXCEPT ![w].pc = "start"]
  /\ resp' = None
  /\ ret' = None
  /\ UNCHANGED <<data_file, clock, ready, pending>>

\* a faulty variant of Context: orders_data['orders'] without the [:50]
Context_unsliced(user_query, orders_data) ==
  [total_orders |-> orders_data.total_orders,
   last_updated |-> orders_data.last_updated,
   orders |-> orders_data.orders,
   note |-> "if there are more than 50 orders only the first 50 are shown",
   user_query |-> user_query]

\* query_with_gemini: the context handed to model.generate_content
Context(user_query, orders_data) ==
  [total_orders |-> orders_data.total_orders,
   last_updated |-> orders_data.last_updated,
   orders |-> SubSeq(orders_data.orders, 1, Min(PromptLimit, Len(orders_data.orders))),
   note |-> "if there are more than 50 orders only the first 50 are shown",
   user_query |-> user_query]

\* a faulty variant of query_with_gemini: no except clause, the error propagates
query_with_gemini_uncaught(outcome) ==
  IF outcome = "ok"
  THEN [kind |-> "model_text"]
  ELSE Raised("model error")

\* query_with_gemini after the model call: response.text, or the string its
\* "except Exception as e" makes of the error
query_with_gemini(outcome) ==
  IF outcome = "ok"
  THEN [kind |-> "model_text"]
  ELSE [kind |-> "error_text", text |-> "AI response error"]

\* the status query_orders' own "except Exception as e: raise
\* HTTPException(status_code=500, ...)" gives an exception raised in its try
\* block; HTTPException is an Exception
ExceptClause(raised) == 500

ErrorBody == [kind |-> "error"]

\* query_orders up to the model call: load the file, "if not data: raise
\* HTTPException(503)" inside the try block
query_orders_begin ==
  /\ CanServe
  /\ \E q \in Queries :
       LET data == load_orders_from_file(data_file)
       IN IF ~Truthy(data)
          THEN /\ resp' = Response("query",
                                   ExceptClause(Raised("HTTPException 503")),
                                   ErrorBody, data, "none")
               /\ pending' = pending
          ELSE /\ pending' = [kind |-> "query", data |-> data,
                              context |-> Context(q, data)]
               /\ resp' = None
  /\ ret' = None
  /\ UNCHANGED <<data_file, clock, cyc, ready>>

\* the rest of query_orders' try block, and its except clause
QueryResult(answer, data, now, outcome) ==
  IF answer.kind = "exception"
  THEN Response("query", ExceptClause(answer), ErrorBody, data, outcome)
  ELSE Response("query", 200,
                [kind |-> "answer",
                 answer |-> answer,
                 data_info |-> DataInfo(data),
                 timestamp |-> now],
                data, outcome)

\* a faulty variant of query_orders_end: data_info is taken from a second
\* load_orders_from_file(), made after the model call
query_orders_end_rereads ==
  /\ pending.kind = "query"
  /\ \E outcome \in {"ok", "raise"}, now \in Now :
       LET again == load_orders_from_file(data_file)
       IN /\ clock' = now
          /\ resp' = IF Truthy(again)
                     THEN QueryResult(query_with_gemini(outcome), again, now, outcome)
                     ELSE Response("query", ExceptClause(Raised("TypeError")),
                                   ErrorBody, again, outcome)
  /\ pending' = None
  /\ ret' = None
  /\ UNCHANGED <<data_file, cyc, ready>>

\* model.generate_content returned or raised; query_orders builds QueryResponse
query_orders_end ==
  /\ pending.kind = "query"
  /\ \E outcome \in {"ok", "raise"}, now \in Now :
       /\ clock' = now
       /\ resp' = QueryResult(query_with_gemini(outcome), pending.data, now, outcome)
  /\ pending' = None
  /\ ret' = None
  /\ UNCHANGED <<data_file, cyc, ready>>

\* ---------------------------------------------------------- specification
Next ==
  \/ \E w \in Writers : load_orders_from_db(w)
  \/ \E w \in Tasks : run_task(w)
  \/ startup_event
  \/ refresh_data_job
  \/ root
  \/ get_data_stats
  \/ manual_refresh
  \/ query_orders_begin
  \/ query_orders_end

Spec == Init /\ [][Next]_vars

\* the threads a queued background task waits for are never all busy forever
FairSpec == Spec /\ \A w \in Tasks : WF_vars(run_task(w))

\* the startup handler and the refresh thread are scheduled again and again,
\* and time.sleep returns
LoopFairSpec ==
  /\ Spec
  /\ WF_vars(load_orders_from_db(MainThread))
  /\ WF_vars(startup_event)
  /\ WF_vars(load_orders_from_db(TimerThread))
  /\ WF_vars(refresh_data_job)

\* two POST /refresh-data in quick succession: startup is over, the refresh
\* thread is in its five-minute sleep and stays there, the document is absent
\* or holds what an earlier cycle wrote
QuickInit ==
  /\ data_file \in
       {[exists |-> FALSE, content |-> <<>>]} \cup
       { [exists |-> TRUE, content |-> json_dump(DataToSave(rows, 0))] :
           rows \in FetchResults }
  /\ clock = 0
  /\ cyc = [w \in Writers |->
              IF w = MainThread THEN Idle("done")
              ELSE IF w = TimerThread THEN Idle("returned")
              ELSE Idle("unused")]
  /\ ready = TRUE
  /\ pending = None
  /\ resp = None
  /\ ret = None

QuickNext ==
  \/ \E w \in Writers : load_orders_from_db(w)
  \/ \E w \in Tasks : run_task(w)
  \/ root
  \/ get_data_stats
  \/ manual_refresh
  \/ query_orders_begin
  \/ query_orders_end

QuickSpec == QuickInit /\ [][QuickNext]_vars

\* the handlers on a Snapshot of up to MaxPromptOrders rows: a cycle wrote it
\* at second 0, no cycle runs (the refresh thread sleeps, no manual refresh)
StoredOrders ==
  { [i \in 1..n |-> OrderRecord(i, v)] : n \in 0..MaxPromptOrders, v \in 1..NumVersions }

ServeInit ==
  /\ \E rows \in StoredOrders :
       data_file = [exists |-> TRUE, content |-> json_dump(DataToSave(rows, 0))]
  /\ clock = 0
  /\ cyc = [w \in Writers |->
              IF w = MainThread THEN Idle("done")
              ELSE IF w = TimerThread THEN Idle("returned")
              ELSE Idle("unused")]
  /\ ready = TRUE
  /\ pending = None
  /\ resp = None
  /\ ret = None

ServeNext ==
  \/ root
  \/ get_data_stats
  \/ query_orders_begin
  \/ query_orders_end

ServeSpec == ServeInit /\ [][ServeNext]_vars

\* requests while refresh cycles rewrite a document that an earlier cycle
\* wrote successfully: as QuickSpec, the document holds a complete Snapshot
WarmInit == QuickInit /\ data_file.exists

WarmSpec == WarmInit /\ [][QuickNext]_vars

\* ================================================================ claims
IsResp(op) == resp # None /\ resp.op = op

Returned == ret # None

\* the Snapshot the document holds, when it holds one
Written == json_load(data_file.content)

\* ---------------------------------------------------------------------
\* C1: when no Snapshot exists (the document is missing or cannot be
\* parsed), POST /query answers 503, not 500 and not a 200-shaped answer.
C1_NotReadyIs503 ==
  (IsResp("query") /\ ~Truthy(resp.read)) => resp.status = 503

\* ---------------------------------------------------------------------
\* C2: two POST /refresh-data in quick succession: once both cycles have
\* written their last block (closing the file and returning change nothing on
\* disk), the document is a valid, complete Snapshot and equals the document
\* of one of the two attempts.
AllWritten(w) ==
  /\ cyc[w].pc = "writing"
  /\ cyc[w].pos = Len(json_dump(cyc[w].data_to_save))

C2_OneOfTheTwo ==
  (\A t \in Tasks : AllWritten(t)) =>
     /\ WellFormed(data_file.content)
     /\ \E t \in Tasks : data_file.content = json_dump(cyc[t].data_to_save)

\* ---------------------------------------------------------------------
\* C3: a refresh cycle whose fetch fails (no connection, or the query raises)
\* leaves the document as it was, and with it what GET /data-stats returns.
\* The failing call is one step of the model: it touches nothing before it
\* returns False.
FetchFailed(r) == r # None /\ r.log \in {"conn_error", "query_error"}

C3_FailedFetchKeepsDocument ==
  [][FetchFailed(ret') =>
       /\ data_file' = data_file
       /\ StatsBody(load_orders_from_file(data_file'))
            = StatsBody(load_orders_from_file(data_file))]_vars

\* a fetch fails while the document holds a Snapshot with a record
C3_Witness ==
  /\ FetchFailed(ret)
  /\ ret.log = "query_error"
  /\ data_file.exists
  /\ WellFormed(data_file.content)
  /\ Len(data_file.content) > 1

\* ---------------------------------------------------------------------
\* C4: whenever a cycle reports success, the document it wrote has
\* total_orders equal to the number of records in its orders.
C4_TotalIsLength ==
  (Returned /\ ret.value = TRUE) =>
     /\ ret.data_to_save.total_orders = Len(ret.data_to_save.orders)
     /\ json_load(json_dump(ret.data_to_save)).total_orders
          = Len(json_load(json_dump(ret.data_to_save)).orders)

\* a cycle that fetched a record reports success
C4_Witness ==
  /\ Returned
  /\ ret.value = TRUE
  /\ Len(ret.data_to_save.orders) >= 1

\* ---------------------------------------------------------------------
\* C5, as stated: after a successful write of N records and no later write,
\* GET /data-stats reports total_orders = N and the first record as
\* sample_order when N >= 1, and the "no data" message when N = 0.
C5_NoDataWhenEmpty ==
  IsResp("stats") =>
    LET N == Len(Written.orders)
    IN /\ N >= 1 => /\ resp.body.kind = "stats"
                    /\ resp.body.total_orders = N
                    /\ resp.body.sample_order = Written.orders[1]
       /\ N = 0 => resp.body.kind = "message"

\* C5, amended: ... and when N = 0 a stats object with total_orders = 0 and
\* sample_order null (the "no data" message is for an absent document).
C5_StatsOfWrite ==
  IsResp("stats") =>
    LET N == Len(Written.orders)
    IN /\ resp.body.kind = "stats"
       /\ resp.body.total_orders = N
       /\ resp.body.last_updated = Written.last_updated
       /\ N >= 1 => resp.body.sample_order = Written.orders[1]
       /\ N = 0 => resp.body.sample_order = None

\* GET /data-stats answers on a written Snapshot of no records
C5_Witness ==
  /\ IsResp("stats")
  /\ Len(Written.orders) = 0

\* ---------------------------------------------------------------------
\* C6: the source returned 0 records and the cycle wrote them: GET /data-stats
\* returns a stats object with total_orders = 0 and sample_order null.
HoldsEmptySnapshot ==
  /\ data_file.exists
  /\ \E t \in 0..MaxClock : data_file.content = json_dump(DataToSave(<<>>, t))

C6_EmptyStats ==
  (IsResp("stats") /\ HoldsEmptySnapshot) =>
     /\ resp.body.kind = "stats"
     /\ resp.body.total_orders = 0
     /\ resp.body.sample_order = None

\* GET /data-stats answers while the document holds what a cycle wrote from 0 rows
C6_Witness == IsResp("stats") /\ HoldsEmptySnapshot

\* ---------------------------------------------------------------------
\* C7: the read never raises: it returns "absent" (None) when there is no
\* document or the document does not parse, and the parsed document otherwise.
C7_ReadNeverRaises ==
  LET r == load_orders_from_file(data_file)
  IN /\ r.kind # "exception"
     /\ ~data_file.exists => r = None
     /\ (data_file.exists /\ ~WellFormed(data_file.content)) => r = None
     /\ (data_file.exists /\ WellFormed(data_file.content)) =>
          /\ r.kind = "snapshot"
          /\ json_dump(r) = data_file.content
     /\ (IsResp("root") \/ IsResp("stats")) => resp.read = r

\* a handler reads a document that does not parse, and gets None
C7_Witness ==
  /\ IsResp("stats")
  /\ data_file.exists
  /\ data_file.content # <<>>
  /\ ~WellFormed(data_file.content)
  /\ resp.read = None

\* ---------------------------------------------------------------------
\* C8: for a Snapshot of N records the prompt holds exactly the first
\* min(N, 50) records, in their stored order, and when N > 50 a note that the
\* shown set is truncated.
C8_PromptHasFirstFifty ==
  pending.kind = "query" =>
    LET N == Len(Written.orders)
        shown == pending.context.orders
    IN /\ Len(shown) = Min(N, PromptLimit)
       /\ \A i \in 1..Len(shown) : shown[i] = Written.orders[i]
       /\ N > PromptLimit =>
            pending.context.note
              = "if there are more than 50 orders only the first 50 are shown"

\* a query on a Snapshot of more than 50 records
C8_Witness ==
  /\ pending.kind = "query"
  /\ Len(Written.orders) > PromptLimit

\* ---------------------------------------------------------------------
\* C9: a failure of the model call during POST /query, when a Snapshot
\* exists, becomes a textual answer: the response is the normal 200 shape
\* (answer, data_info, timestamp) and the answer describes the error.
C9_ModelFailureIsAnAnswer ==
  (IsResp("query") /\ resp.model = "raise") =>
     /\ Truthy(resp.read)
     /\ resp.status = 200
     /\ resp.body.kind = "answer"
     /\ resp.body.answer.kind = "error_text"
     /\ resp.body.data_info = DataInfo(resp.read)
     /\ resp.body.timestamp \in 0..MaxClock

\* POST /query whose model call raised
C9_Witness == IsResp("query") /\ resp.model = "raise"

\* ---------------------------------------------------------------------
\* C10: POST /refresh-data enqueues exactly one cycle and responds without
\* waiting for it: in the step that sends the response one task goes from
\* unused to queued, nothing else of any cycle changes and the document is
\* not written; a task is only ever enqueued by such a step; and a queued
\* cycle eventually runs.
C10_EnqueuesOneAndReturns ==
  /\ [][(resp' # None /\ resp'.op = "refresh") =>
          /\ data_file' = data_file
          /\ \E t \in Tasks :
               /\ cyc[t].pc = "unused"
               /\ cyc'[t].pc = "queued"
               /\ \A u \in Writers \ {t} : cyc'[u] = cyc[u]]_vars
  /\ [][\A t \in Tasks :
          (cyc[t].pc = "unused" /\ cyc'[t].pc # "unused") =>
             (cyc'[t].pc = "queued" /\ resp' # None /\ resp'.op = "refresh")]_vars
  /\ \A t \in Tasks :
       (cyc[t].pc = "queued") ~> (cyc[t].pc \notin {"unused", "queued"})

\* the response is sent while the cycle it enqueued has not started
C10_Witness ==
  /\ IsResp("refresh")
  /\ \E t \in Tasks : cyc[t].pc = "queued"

\* ---------------------------------------------------------------------
\* C11: once a Snapshot has been written successfully, a read that overlaps
\* a write sees the previous or the new Snapshot, never "absent" and never a
\* partial document: GET / does not fall back to its no-data response and
\* POST /query does not report "not ready".
C11_ReadSeesASnapshot ==
  /\ IsResp("root") => (Truthy(resp.read) /\ resp.body.kind = "active")
  /\ IsResp("stats") => Truthy(resp.read)
  /\ IsResp("query") => (Truthy(resp.read) /\ resp.body.kind # "error")

\* ---------------------------------------------------------------------
\* C12: one cycle runs at startup, and every cycle of the refresh thread is
\* preceded by a sleep of the full interval: whenever the refresh thread
\* begins a cycle it comes out of time.sleep, so the startup cycle is not
\* followed by a second cycle before the first sleep.
C12_SleepBeforeEveryTimedCycle ==
  [][(cyc[TimerThread].pc # "start" /\ cyc'[TimerThread].pc = "start") =>
        cyc[TimerThread].pc = "returned"]_vars

\* ---------------------------------------------------------------------
\* C13: the timed refresh loop never ends and survives failed cycles: every
\* cycle of the refresh thread, whatever its outcome (connection error,
\* query error, write error, success), ends in the sleep; the only thing
\* that follows the sleep is the start of another cycle; and under fairness
\* a further cycle is always eventually attempted.
C13_LoopNeverEnds ==
  /\ [][(cyc[TimerThread].pc \in {"start", "built", "writing"}
         /\ cyc'[TimerThread].pc # cyc[TimerThread].pc) =>
           cyc'[TimerThread].pc \in {"built", "writing", "returned"}]_vars
  /\ [][(cyc[TimerThread].pc = "returned" /\ cyc'[TimerThread] # cyc[TimerThread]) =>
           cyc'[TimerThread].pc = "start"]_vars
  /\ []<>(cyc[TimerThread].pc = "start")

\* a cycle of the refresh thread has failed and the thread is in its sleep
C13_Witness ==
  /\ Returned
  /\ ret.by = TimerThread
  /\ ret.value = FALSE
  /\ cyc[TimerThread].pc = "returned"

\* ---------------------------------------------------------------------
\* C14: the model call is a suspension point: while one POST /query waits
\* for model.generate_content, another request (GET /, GET /data-stats,
\* POST /refresh-data, a second POST /query) can start and complete.
C14_ServedDuringModelCall ==
  pending # None =>
    /\ ENABLED root
    /\ ENABLED get_data_stats
    /\ ENABLED query_orders_begin
    /\ (NextTask \in Tasks => ENABLED manual_refresh)

\* ---------------------------------------------------------------------
\* C15: only refresh cycles write the document: a step that sends a
\* response (GET /, POST /query, GET /data-stats, POST /refresh-data, with
\* any status) or that starts or ends a model call leaves the document as it
\* is, and every step that changes the document is a step of a cycle that
\* has built its document (the startup cycle, the timed loop or a task).
C15_OnlyCyclesWrite ==
  [][/\ (resp' # None) => data_file' = data_file
     /\ (pending' # pending) => data_file' = data_file
     /\ (data_file' # data_file) =>
          \E w \in Writers :
            /\ cyc[w].pc \in {"built", "writing"}
            /\ cyc'[w] # cyc[w]
            /\ \A u \in Writers \ {w} : cyc'[u] = cyc[u]]_vars

\* POST /query has answered with its error while a document that cannot be
\* read lies on disk, and the document is still there
C15_Witness ==
  /\ IsResp("query")
  /\ resp.status = 500
  /\ data_file.exists
  /\ ~WellFormed(data_file.content)

C17_OneReadPerQuery ==
  /\ [](pending # None =>
          /\ Truthy(pending.data)
          /\ pending.context.total_orders = pending.data.total_orders
          /\ pending.context.last_updated = pending.data.last_updated
          /\ Len(pending.context.orders) <= Len(pending.data.orders)
          /\ \A i \in 1..Len(pending.context.orders) :
               pending.context.orders[i] = pending.data.orders[i])
  /\ [][(resp' # None /\ resp'.op = "query" /\ resp'.status = 200) =>
          /\ pending # None
          /\ resp'.read = pending.data
          /\ resp'.body.data_info.total_orders = pending.context.total_orders
          /\ resp'.body.data_info.last_updated = pending.context.last_updated]_vars

\* the answer is sent when the document on disk is no longer the Snapshot
\* the query read: a cycle has replaced it with another complete Snapshot
C17_Witness ==
  /\ IsResp("query")
  /\ resp.status = 200
  /\ WellFormed(data_file.content)
  /\ Written # resp.read

====
